---- MODULE Spec2Model ----
(***************************************************************************)
(* Model of src/genome.ts: class Chromosome (a Uint32Array of genes with   *)
(* copy, spawnWith, diversityWith, mutate), class Genome (a list of        *)
(* chromosomes and the cached shape, with copy, diversityWith, spawnWith)  *)
(* and the helper countOnes.                                               *)
(*                                                                         *)
(* Representation.                                                         *)
(*  - A gene is one element of a Uint32Array.  It is modelled as the set   *)
(*    of the positions (0 = least significant) of its 1 bits, so that a    *)
(*    32-bit value keeps its width: storing an int32 result of ^, ~ or <<  *)
(*    into a Uint32Array keeps exactly these 32 bits.                      *)
(*  - The heap is explicit: bufs are the Uint32Array objects, chroms the   *)
(*    Chromosome objects (each holding a reference to a buffer), genomes   *)
(*    the Genome objects (each holding references to chromosomes).         *)
(*    Sharing of storage is therefore expressible.                         *)
(*  - Math.random() returns n/RandDen for n in RandNums; a probability     *)
(*    argument p is the number p/RandDen.                                  *)
(*  - A JavaScript number that results from a division is an exact         *)
(*    fraction, NaN or Infinity.                                           *)
(*  - An operation whose outcome depends on Math.random() is an operator   *)
(*    that yields the set of its possible outcomes.                        *)
(***************************************************************************)
EXTENDS Integers, Sequences, FiniteSets, TLC

\* Number of bits of a gene.
W == 32

\* Longest chromosome the constructors are asked for.
MaxLen == 2
\* Chromosome objects allocated in the chromosome-level specification.
MaxChroms == 3
\* Genome objects allocated in the genome-level specification.
MaxGenomes == 3
\* Longest list of lengths given to the Genome constructor.
MaxGenomeLen == 2
\* Largest length in a list given to the Genome constructor.
MaxShape == 1
\* Operations performed in one behaviour.
MaxSteps == 3
\* Math.random() is drawn with resolution 1/RandDen.
RandDen == 32

\* The values of Math.random() that are drawn: 0 and (RandDen-1)/RandDen.
RandNums == {0, RandDen - 1}

\* The arguments <<mutationProb, additionProb>> of mutate, as numerators over
\* RandDen: (0, 0), (0, 1), (2.5, 0) and (3, 0).
MutateArgs ==
    {<<0, 0>>, <<0, RandDen>>, <<2 * RandDen + RandDen \div 2, 0>>, <<3 * RandDen, 0>>}

\* The arguments <<mutationProbability, additionProbability>> of
\* Genome.spawnWith, as numerators over RandDen: (0, 0), (0, 1) and (1, 1).
SpawnArgs == {<<0, 0>>, <<0, RandDen>>, <<RandDen, RandDen>>}

VARIABLES bufs, chroms, genomes, ret, steps

vars == <<bufs, chroms, genomes, ret, steps>>

-----------------------------------------------------------------------------
(* 32-bit values *)

AllBits == 0 .. (W - 1)

\* The bits of a 16-bit limb k, placed from position base.
LimbBits(k, base) == {base + i : i \in {j \in 0 .. 15 : (k \div (2 ^ j)) % 2 = 1}}

\* Math.floor(Math.random() * 4294967295) for Math.random() = n/RandDen,
\* computed on two 16-bit limbs (4294967295 = 65535 * 65536 + 65535).
RandomGene(n) ==
    LET thi == n * 65535
        q1 == thi \div RandDen
        r1 == thi % RandDen
        q0 == (r1 * 65536 + n * 65535) \div RandDen
        hi == q1 + (q0 \div 65536)
        lo == q0 % 65536
    IN  LimbBits(lo, 0) \cup LimbBits(hi, 16)

\* a ^ b, stored into a Uint32Array.
Xor(a, b) == (a \ b) \cup (b \ a)

\* ~a, stored into a Uint32Array.
Not(a) == AllBits \ a

\* 1 << idxBit (an int32; bit 31 is its sign bit).
Shl1(idxBit) == {idxBit}

\* n >> 1 on an int32: the sign bit is shifted in from the left.
Sar1(n) == {i - 1 : i \in n \ {0}} \cup (IF (W - 1) \in n THEN {W - 1} ELSE {})

\* The inner loop of countOnes for one element: i counts the iterations done.
RECURSIVE CountBits(_, _, _)
CountBits(n, i, count) ==
    IF i >= W THEN count
    ELSE CountBits(Sar1(n), i + 1, IF 0 \in n THEN count + 1 ELSE count)

\* countOnes(arr)
RECURSIVE countOnes(_)
countOnes(arr) ==
    IF arr = << >> THEN 0
    ELSE CountBits(Head(arr), 0, 0) + countOnes(Tail(arr))

-----------------------------------------------------------------------------
(* JavaScript numbers produced by division *)

RECURSIVE GCD(_, _)
GCD(a, b) == IF b = 0 THEN a ELSE GCD(b, a % b)

NaN == [kind |-> "nan", num |-> 0, den |-> 1]
Infinity == [kind |-> "inf", num |-> 0, den |-> 1]

\* The fraction n/d (d > 0) in lowest terms.
Frac(n, d) ==
    LET g == GCD(n, d)
    IN  [kind |-> "num", num |-> n \div g, den |-> d \div g]

\* x / k for a number x >= 0 and an integer k >= 0.
Divide(x, k) ==
    IF x.kind = "nan" THEN NaN
    ELSE IF x.kind = "inf" THEN Infinity
    ELSE IF k = 0 THEN (IF x.num = 0 THEN NaN ELSE Infinity)
    ELSE Frac(x.num, x.den * k)

\* x + y for numbers x, y >= 0.
Plus(x, y) ==
    IF x.kind = "nan" \/ y.kind = "nan" THEN NaN
    ELSE IF x.kind = "inf" \/ y.kind = "inf" THEN Infinity
    ELSE Frac(x.num * y.den + y.num * x.den, x.den * y.den)

-----------------------------------------------------------------------------
(* The heap *)

Heap == [bufs |-> bufs, chroms |-> chroms]

\* this.genes of chromosome c in heap h.
Genes(h, c) == h.bufs[h.chroms[c].genes]

\* get length()
Length(h, c) == Len(Genes(h, c))

\* new Uint32Array(...) with the given contents; the new buffer is the last one.
NewArray(h, arr) == [h EXCEPT !.bufs = Append(@, arr)]

\* A new Chromosome object holding buffer b; the new object is the last one.
\* copyOf records the chromosome it was copied from (0: none).
NewObject(h, b, src) == [h EXCEPT !.chroms = Append(@, [genes |-> b, copyOf |-> src])]

\* arr[i] = v on a typed array (i counted from 0): a store outside the array
\* is ignored.
Store(h, c, i, v) ==
    IF i < Length(h, c)
    THEN [h EXCEPT !.bufs[h.chroms[c].genes][i + 1] = v]
    ELSE h

\* arr[i] on a typed array: undefined outside the array, and undefined is 0
\* as an operand of ^.
Load(h, c, i) == IF i < Length(h, c) THEN Genes(h, c)[i + 1] ELSE {}

-----------------------------------------------------------------------------
(* Chromosome *)

\* new Chromosome(length), the random draws given by draws[1..length].
ChromosomeNew(h, length, draws) ==
    LET h1 == NewArray(h, [i \in 1 .. length |-> RandomGene(draws[i])])
        h2 == NewObject(h1, Len(h1.bufs), 0)
    IN  [h |-> h2, id |-> Len(h2.chroms)]

\* The outcomes of new Chromosome(length).
ChromosomeNewOutcomes(h, length) ==
    {ChromosomeNew(h, length, d) : d \in [1 .. length -> RandNums]}

\* A copy that shares the gene storage of its source.
ChromosomeCopyAliased(h, c) ==
    LET h2 == NewObject(h, h.chroms[c].genes, c)
    IN  [h |-> h2, id |-> Len(h2.chroms)]

\* copy(): new Uint32Array(this.genes) copies the elements into new storage.
\* (The empty array of the intermediate new Chromosome(0) is dropped at once
\* and is not kept in the heap.)
ChromosomeCopy(h, c) ==
    LET h1 == NewArray(h, Genes(h, c))
        h2 == NewObject(h1, Len(h1.bufs), c)
    IN  [h |-> h2, id |-> Len(h2.chroms)]

\* The receiver is always taken as the dominant parent.
DominantAlwaysThis(h, this, other) == [dom |-> this, nondom |-> other]

\* spawnWith: [dom, nondom] = other.length > this.length ? [other, this] : [this, other]
Dominant(h, this, other) ==
    IF Length(h, other) > Length(h, this)
    THEN [dom |-> other, nondom |-> this]
    ELSE [dom |-> this, nondom |-> other]

\* The child is the dominant parent itself.
SpawnChildIsDominant(h, dom) == [h |-> h, id |-> dom]

\* spawnWith: const child = dom.copy()
SpawnChild(h, dom) == ChromosomeCopy(h, dom)

\* spawnWith: Math.random() > 0.5
TakeNondominant(r) == 2 * r > RandDen

\* spawnWith: the loop over the genes of the child, from index i on.
RECURSIVE SpawnLoop(_, _, _, _)
SpawnLoop(h, child, nondom, i) ==
    IF i >= Length(h, child) THEN {h}
    ELSE IF i < Length(h, nondom)
         THEN UNION {SpawnLoop(IF TakeNondominant(r)
                                THEN Store(h, child, i, Load(h, nondom, i))
                                ELSE h,
                               child, nondom, i + 1) : r \in RandNums}
         ELSE SpawnLoop(h, child, nondom, i + 1)

\* The outcomes of this.spawnWith(other): the heap and the child.
ChromosomeSpawnWith(h, this, other) ==
    LET d == Dominant(h, this, other)
        c == SpawnChild(h, d.dom)
    IN  {[h |-> h1, id |-> c.id] : h1 \in SpawnLoop(c.h, c.id, d.nondom, 0)}

\* The tail of the extended shorter chromosome repeats the longer one.
TailGeneSame(g) == g

\* diversityWith: extendedShorter[i] = ~longer[i]
TailGene(g) == Not(g)

\* this.diversityWith(other)
ChromosomeDiversityWith(h, this, other) ==
    LET thisLonger == Length(h, this) > Length(h, other)
        longer == IF thisLonger THEN Genes(h, this) ELSE Genes(h, other)
        shorter == IF thisLonger THEN Genes(h, other) ELSE Genes(h, this)
        extendedShorter == [i \in 1 .. Len(longer) |->
                               IF i <= Len(shorter) THEN shorter[i] ELSE TailGene(longer[i])]
        xored == [i \in 1 .. Len(longer) |-> Xor(longer[i], extendedShorter[i])]
        onesCount == countOnes(xored)
    IN  Divide(Frac(onesCount, 1), Len(longer) * W)

\* An attempt also fires when Math.random() equals the probability.
FiresInclusive(r, prob) == r <= prob

\* mutate: Math.random() < mutationProb
Fires(r, prob) == r < prob

\* mutate: the number of attempts and the probability of each, for the
\* argument mutationProb = p/RandDen.
Attempts(p) ==
    IF p >= RandDen
    THEN LET n == p \div RandDen
             f == p - n * RandDen
         IN  [numMutations |-> n, mutationProb |-> IF f = 0 THEN RandDen ELSE f]
    ELSE [numMutations |-> 1, mutationProb |-> p]

\* mutate: the while loop with numMutations attempts left; flips counts the
\* executions of the bit flip.
RECURSIVE MutateLoop(_, _, _, _, _)
MutateLoop(h, c, numMutations, mutationProb, flips) ==
    IF numMutations <= 0 THEN {[h |-> h, flips |-> flips]}
    ELSE UNION {
           IF Fires(r, mutationProb)
           THEN UNION {MutateLoop(
                          LET idxGene == (rg * Length(h, c)) \div RandDen
                              idxBit == (rb * W) \div RandDen
                          IN  Store(h, c, idxGene, Xor(Load(h, c, idxGene), Shl1(idxBit))),
                          c, numMutations - 1, mutationProb, flips + 1)
                       : rg \in RandNums, rb \in RandNums}
           ELSE MutateLoop(h, c, numMutations - 1, mutationProb, flips)
           : r \in RandNums}

\* mutate: the addition of a gene, for additionProb = ap/RandDen.
Addition(h, c, ap) ==
    UNION {
      IF r < ap
      THEN {LET h1 == NewArray(h, Append(Genes(h, c), RandomGene(rv)))
            IN  [h |-> [h1 EXCEPT !.chroms[c].genes = Len(h1.bufs)], added |-> TRUE]
            : rv \in RandNums}
      ELSE {[h |-> h, added |-> FALSE]}
      : r \in RandNums}

\* The outcomes of c.mutate(p/RandDen, ap/RandDen).
ChromosomeMutate(h, c, p, ap) ==
    LET a == Attempts(p)
    IN  UNION {{[h |-> o.h, flips |-> m.flips, added |-> o.added]
                : o \in Addition(m.h, c, ap)}
               : m \in MutateLoop(h, c, a.numMutations, a.mutationProb, 0)}

-----------------------------------------------------------------------------
(* Genome *)

\* constructor: lengths.map(len => new Chromosome(len)), from the first on.
RECURSIVE GenomeNewLoop(_, _, _)
GenomeNewLoop(h, lengths, ids) ==
    IF lengths = << >> THEN {[h |-> h, chromosomes |-> ids]}
    ELSE UNION {GenomeNewLoop(o.h, Tail(lengths), Append(ids, o.id))
                : o \in ChromosomeNewOutcomes(h, Head(lengths))}

\* The outcomes of new Genome(lengths): shape = [...lengths].
GenomeNew(h, lengths) ==
    {[h |-> o.h, genome |-> [chromosomes |-> o.chromosomes, shape |-> lengths]]
     : o \in GenomeNewLoop(h, lengths, << >>)}

\* copy: this.chromosomes.map(c => c.copy()), from the first on.
RECURSIVE GenomeCopyLoop(_, _, _)
GenomeCopyLoop(h, cs, ids) ==
    IF cs = << >> THEN [h |-> h, chromosomes |-> ids]
    ELSE LET o == ChromosomeCopy(h, Head(cs))
         IN  GenomeCopyLoop(o.h, Tail(cs), Append(ids, o.id))

\* this.copy(): shape = this.chromosomes.map(c => c.length)
GenomeCopy(h, this) ==
    LET o == GenomeCopyLoop(h, this.chromosomes, << >>)
    IN  [h |-> o.h,
         genome |-> [chromosomes |-> o.chromosomes,
                     shape |-> [i \in 1 .. Len(this.chromosomes) |->
                                   Length(h, this.chromosomes[i])]]]

\* diversityWith: the loop over the chromosomes of the shorter genome.
RECURSIVE GenomeDiversityLoop(_, _, _, _, _)
GenomeDiversityLoop(h, shorter, longer, i, divTotal) ==
    IF i >= Len(shorter) THEN divTotal
    ELSE LET divCurrent == ChromosomeDiversityWith(h, shorter[i + 1], longer[i + 1])
         IN  GenomeDiversityLoop(h, shorter, longer, i + 1, Plus(divTotal, divCurrent))

\* this.diversityWith(other)
GenomeDiversityWith(h, this, other) ==
    LET thisShorter == Len(this.chromosomes) < Len(other.chromosomes)
        shorter == IF thisShorter THEN this.chromosomes ELSE other.chromosomes
        longer == IF thisShorter THEN other.chromosomes ELSE this.chromosomes
        divTotal == GenomeDiversityLoop(h, shorter, longer, 0, Frac(0, 1))
    IN  Divide(divTotal, Len(shorter))

\* arr[i] = v on an Array (i counted from 0); i = arr.length appends.  (A
\* larger i is not reached: shape is never shorter than chromosomes.)
SetIndex(arr, i, v) ==
    IF i < Len(arr) THEN [arr EXCEPT ![i + 1] = v] ELSE Append(arr, v)

\* The chromosome is taken only when the other parent has one more after it.
InBothOffByOne(i, otherCount) == i + 1 < otherCount

\* spawnWith: i < other.chromosomes.length
InBoth(i, otherCount) == i < otherCount

\* spawnWith: the loop over the chromosomes of the receiver, from index i on.
RECURSIVE GenomeSpawnLoop(_, _, _, _, _, _, _, _)
GenomeSpawnLoop(h, this, other, p, ap, i, chromosomes, newShape) ==
    IF i >= Len(this.chromosomes)
    THEN {[h |-> h, genome |-> [chromosomes |-> chromosomes, shape |-> newShape]]}
    ELSE IF InBoth(i, Len(other.chromosomes))
         THEN UNION {UNION {GenomeSpawnLoop(m.h, this, other, p, ap, i + 1,
                                            Append(chromosomes, s.id),
                                            SetIndex(newShape, i, Length(m.h, s.id)))
                            : m \in ChromosomeMutate(s.h, s.id, p, ap)}
                     : s \in ChromosomeSpawnWith(h, this.chromosomes[i + 1],
                                                 other.chromosomes[i + 1])}
         ELSE GenomeSpawnLoop(h, this, other, p, ap, i + 1, chromosomes, newShape)

\* The outcomes of this.spawnWith(other, p/RandDen, ap/RandDen):
\* child = new Genome([]), newShape = [...this.shape].
GenomeSpawnWith(h, this, other, p, ap) ==
    GenomeSpawnLoop(h, this, other, p, ap, 0, << >>, this.shape)

-----------------------------------------------------------------------------
(* The result of the last operation *)

NoRet == [op |-> "none", a |-> 0, b |-> 0, res |-> 0, val |-> NaN,
          p |-> 0, ap |-> 0, flips |-> 0, added |-> FALSE, pre |-> << >>]

Init ==
    /\ bufs = << >>
    /\ chroms = << >>
    /\ genomes = << >>
    /\ ret = NoRet
    /\ steps = 0

Step == steps < MaxSteps /\ steps' = steps + 1

ChromIds == 1 .. Len(chroms)

-----------------------------------------------------------------------------
(* Chromosome-level operations *)

NewChromosome ==
    /\ Step
    /\ Len(chroms) < MaxChroms
    /\ \E length \in 0 .. MaxLen : \E o \in ChromosomeNewOutcomes(Heap, length) :
          /\ bufs' = o.h.bufs
          /\ chroms' = o.h.chroms
          /\ ret' = [NoRet EXCEPT !.op = "new", !.res = o.id]
    /\ UNCHANGED genomes

CopyChromosome ==
    /\ Step
    /\ Len(chroms) < MaxChroms
    /\ \E c \in ChromIds :
          LET o == ChromosomeCopy(Heap, c)
          IN  /\ bufs' = o.h.bufs
              /\ chroms' = o.h.chroms
              /\ ret' = [NoRet EXCEPT !.op = "copy", !.a = c, !.res = o.id]
    /\ UNCHANGED genomes

SpawnChromosome ==
    /\ Step
    /\ Len(chroms) < MaxChroms
    /\ \E a \in ChromIds, b \in ChromIds : \E o \in ChromosomeSpawnWith(Heap, a, b) :
          /\ bufs' = o.h.bufs
          /\ chroms' = o.h.chroms
          /\ ret' = [NoRet EXCEPT !.op = "spawn", !.a = a, !.b = b, !.res = o.id]
    /\ UNCHANGED genomes

DiversityChromosome ==
    /\ Step
    /\ \E a \in ChromIds, b \in ChromIds :
          ret' = [NoRet EXCEPT !.op = "diversity", !.a = a, !.b = b,
                               !.val = ChromosomeDiversityWith(Heap, a, b)]
    /\ UNCHANGED <<bufs, chroms, genomes>>

MutateChromosome ==
    /\ Step
    /\ \E c \in ChromIds, args \in MutateArgs :
        LET p == args[1]
            ap == args[2]
        IN
          /\ ap > 0 => Length(Heap, c) <= MaxLen
          /\ \E o \in ChromosomeMutate(Heap, c, p, ap) :
                /\ bufs' = o.h.bufs
                /\ chroms' = o.h.chroms
                /\ ret' = [NoRet EXCEPT !.op = "mutate", !.a = c, !.res = c,
                                        !.p = p, !.ap = ap, !.flips = o.flips,
                                        !.added = o.added, !.pre = Genes(Heap, c)]
    /\ UNCHANGED genomes

NextChromosome ==
    \/ NewChromosome
    \/ CopyChromosome
    \/ SpawnChromosome
    \/ DiversityChromosome
    \/ MutateChromosome

SpecChromosome == Init /\ [][NextChromosome]_vars

-----------------------------------------------------------------------------
(* Genome-level operations *)

GenomeIds == 1 .. Len(genomes)

\* The lists of at most n lengths.
RECURSIVE LengthLists(_)
LengthLists(n) ==
    IF n = 0 THEN {<< >>}
    ELSE LET shorter == LengthLists(n - 1)
         IN  shorter \cup {Append(l, x) : l \in {s \in shorter : Len(s) = n - 1},
                                          x \in 0 .. MaxShape}

\* No chromosome of genome g is longer than MaxLen.
MayGrow(g) == \A i \in 1 .. Len(genomes[g].chromosomes) :
                  Length(Heap, genomes[g].chromosomes[i]) <= MaxLen

NewGenome ==
    /\ Step
    /\ Len(genomes) < MaxGenomes
    /\ \E lengths \in LengthLists(MaxGenomeLen) : \E o \in GenomeNew(Heap, lengths) :
          /\ bufs' = o.h.bufs
          /\ chroms' = o.h.chroms
          /\ genomes' = Append(genomes, o.genome)
          /\ ret' = [NoRet EXCEPT !.op = "gnew", !.res = Len(genomes) + 1]

CopyGenome ==
    /\ Step
    /\ Len(genomes) < MaxGenomes
    /\ \E g \in GenomeIds :
          LET o == GenomeCopy(Heap, genomes[g])
          IN  /\ bufs' = o.h.bufs
              /\ chroms' = o.h.chroms
              /\ genomes' = Append(genomes, o.genome)
              /\ ret' = [NoRet EXCEPT !.op = "gcopy", !.a = g, !.res = Len(genomes) + 1]

SpawnGenome ==
    /\ Step
    /\ Len(genomes) < MaxGenomes
    /\ \E a \in GenomeIds, b \in GenomeIds, args \in SpawnArgs :
          /\ args[2] > 0 => MayGrow(a) /\ MayGrow(b)
          /\ \E o \in GenomeSpawnWith(Heap, genomes[a], genomes[b], args[1], args[2]) :
                /\ bufs' = o.h.bufs
                /\ chroms' = o.h.chroms
                /\ genomes' = Append(genomes, o.genome)
                /\ ret' = [NoRet EXCEPT !.op = "gspawn", !.a = a, !.b = b,
                                        !.res = Len(genomes) + 1,
                                        !.p = args[1], !.ap = args[2]]

DiversityGenome ==
    /\ Step
    /\ \E a \in GenomeIds, b \in GenomeIds :
          ret' = [NoRet EXCEPT !.op = "gdiversity", !.a = a, !.b = b,
                               !.val = GenomeDiversityWith(Heap, genomes[a], genomes[b])]
    /\ UNCHANGED <<bufs, chroms, genomes>>

NextGenome ==
    \/ NewGenome
    \/ CopyGenome
    \/ SpawnGenome
    \/ DiversityGenome

SpecGenome == Init /\ [][NextGenome]_vars

-----------------------------------------------------------------------------
(* Properties *)

Min(x, y) == IF x < y THEN x ELSE y
Max(x, y) == IF x > y THEN x ELSE y

\* The number of bit positions at which the genes x and y differ.
DifferingBits(x, y) == Cardinality({k \in AllBits : (k \in x) # (k \in y)})

\* The differing bits of a[i] and b[i], summed over i = 1 .. n.
RECURSIVE SumDifferingBits(_, _, _)
SumDifferingBits(a, b, n) ==
    IF n = 0 THEN 0
    ELSE DifferingBits(a[n], b[n]) + SumDifferingBits(a, b, n - 1)

\* C1: the child of a.spawnWith(b) is as long as the longer parent; below the
\* length of the shorter parent each of its genes is the gene of a or of b at
\* the same index, and from there on it is the gene of the longer parent.
C1_SpawnInheritsByIndex ==
    ret.op = "spawn" =>
        LET a == Genes(Heap, ret.a)
            b == Genes(Heap, ret.b)
            c == Genes(Heap, ret.res)
            S == Min(Len(a), Len(b))
            L == Max(Len(a), Len(b))
            longer == IF Len(b) > Len(a) THEN b ELSE a
        IN  /\ Len(c) = L
            /\ \A i \in 1 .. S : c[i] = a[i] \/ c[i] = b[i]
            /\ \A i \in (S + 1) .. L : c[i] = longer[i]

\* C1 witness: the receiver is the shorter parent, has a gene, and the child
\* took a gene of it that differs from the longer parent's.
C1_Witness ==
    /\ ret.op = "spawn"
    /\ Length(Heap, ret.a) >= 1
    /\ Length(Heap, ret.a) < Length(Heap, ret.b)
    /\ \E i \in 1 .. Length(Heap, ret.a) :
          /\ Genes(Heap, ret.res)[i] = Genes(Heap, ret.a)[i]
          /\ Genes(Heap, ret.res)[i] # Genes(Heap, ret.b)[i]

\* C4: with mutationProb p >= 1 and additionProb 0 on a non-empty chromosome,
\* mutate performs at least floor(p) and at most floor(p) + 1 bit flips,
\* exactly p when p is an integer, and keeps the length.
C4_GuaranteedFlips ==
    (ret.op = "mutate" /\ ret.p >= RandDen /\ ret.ap = 0 /\ Len(ret.pre) > 0) =>
        LET n == ret.p \div RandDen
        IN  /\ ret.flips >= n
            /\ ret.flips <= n + 1
            /\ (ret.p % RandDen = 0 => ret.flips = n)
            /\ Length(Heap, ret.a) = Len(ret.pre)

\* The chromosomes of genome g, each as its sequence of genes.
GenomeGenes(g) ==
    [i \in 1 .. Len(genomes[g].chromosomes) |-> Genes(Heap, genomes[g].chromosomes[i])]

\* C6: a.diversityWith(a) and a.diversityWith(a.copy()) are 0 for a chromosome
\* a of any length, and so is the diversity of a genome of one non-empty
\* chromosome with its copy.
C6_SelfDiversityZero ==
    /\ (/\ ret.op = "diversity"
        /\ \/ ret.a = ret.b
           \/ /\ chroms[ret.b].copyOf = ret.a
              /\ Genes(Heap, ret.b) = Genes(Heap, ret.a))
       => ret.val = Frac(0, 1)
    /\ (/\ ret.op = "gdiversity"
        /\ Len(genomes[ret.a].chromosomes) = 1
        /\ Length(Heap, genomes[ret.a].chromosomes[1]) >= 1
        /\ GenomeGenes(ret.b) = GenomeGenes(ret.a))
       => ret.val = Frac(0, 1)

\* C7: for chromosomes a and b that are not both empty, a.diversityWith(b) is
\* the number of differing bits over the common indices plus 32 for every
\* further index of the longer one, divided by 32 times the longer length; it
\* lies in [0, 1] and equals b.diversityWith(a).
C7_DiversityIsHammingRatio ==
    (/\ ret.op = "diversity"
     /\ Length(Heap, ret.a) + Length(Heap, ret.b) > 0) =>
        LET a == Genes(Heap, ret.a)
            b == Genes(Heap, ret.b)
            S == Min(Len(a), Len(b))
            L == Max(Len(a), Len(b))
            bits == SumDifferingBits(a, b, S) + 32 * (L - S)
        IN  /\ ret.val.kind = "num"
            /\ ret.val.num * (32 * L) = bits * ret.val.den
            /\ 0 <= ret.val.num /\ ret.val.num <= ret.val.den
            /\ ret.val = ChromosomeDiversityWith(Heap, ret.b, ret.a)

\* C7 witness: chromosomes of different lengths whose first genes differ in
\* the top bit, with a diversity strictly between 0 and 1.
C7_Witness ==
    /\ ret.op = "diversity"
    /\ Min(Length(Heap, ret.a), Length(Heap, ret.b)) >= 1
    /\ Length(Heap, ret.a) # Length(Heap, ret.b)
    /\ ((W - 1) \in Genes(Heap, ret.a)[1]) # ((W - 1) \in Genes(Heap, ret.b)[1])
    /\ ret.val.kind = "num"
    /\ 0 < ret.val.num /\ ret.val.num < ret.val.den

\* C8: mutate(0, 0) leaves the genes as they were; mutate(0, 1) appends one
\* gene and leaves the genes before it as they were.
C8_NoMutationKeepsGenes ==
    (ret.op = "mutate" /\ ret.p = 0) =>
        /\ ret.ap = 0 => Genes(Heap, ret.a) = ret.pre
        /\ ret.ap = RandDen =>
              /\ Length(Heap, ret.a) = Len(ret.pre) + 1
              /\ SubSeq(Genes(Heap, ret.a), 1, Len(ret.pre)) = ret.pre

\* C8 witness: mutate(0, 1) on a chromosome that has genes.
C8_Witness ==
    /\ ret.op = "mutate"
    /\ ret.p = 0
    /\ ret.ap = RandDen
    /\ Len(ret.pre) >= 1
    /\ ret.added

\* C9: a call of mutate on a chromosome changes the genes of no chromosome
\* that is a copy of it or that it is a copy of.
C9_CopyIsIndependent ==
    [][ret'.op = "mutate" =>
          \A c \in ChromIds :
              (/\ c # ret'.a
               /\ chroms[c].copyOf = ret'.a \/ chroms[ret'.a].copyOf = c)
              => bufs'[chroms'[c].genes] = bufs[chroms[c].genes]]_vars

\* C9 witness: mutate has flipped a bit of a chromosome that is a copy, and
\* the copy now differs from its source.
C9_Witness ==
    /\ ret.op = "mutate"
    /\ ret.flips > 0
    /\ chroms[ret.a].copyOf # 0
    /\ Genes(Heap, ret.a) # ret.pre
    /\ Genes(Heap, chroms[ret.a].copyOf) = ret.pre

\* C3: in every genome, shape has one entry per chromosome and each entry is
\* the length of its chromosome.
C3_ShapeMatchesChromosomes ==
    \A g \in GenomeIds :
        /\ Len(genomes[g].shape) = Len(genomes[g].chromosomes)
        /\ \A i \in 1 .. Len(genomes[g].chromosomes) :
              genomes[g].shape[i] = Length(Heap, genomes[g].chromosomes[i])

\* C5: no diversity is NaN.
C5_DiversityNeverNaN ==
    ret.op \in {"diversity", "gdiversity"} => ret.val.kind # "nan"

GenomeBufs(cs, g) == {cs[g.chromosomes[i]].genes : i \in 1 .. Len(g.chromosomes)}

\* C10: Genome.spawnWith leaves the chromosomes, the genes and the shape of
\* both parents as they were, and the child shares no chromosome and no gene
\* storage with a parent.
C10_SpawnLeavesParents ==
    [][ret'.op = "gspawn" =>
          \A g \in {ret'.a, ret'.b} :
              /\ genomes'[g] = genomes[g]
              /\ GenomeGenes(g)' = GenomeGenes(g)
              /\ GenomeBufs(chroms', genomes'[ret'.res]) \cap GenomeBufs(chroms', genomes'[g]) = {}
              /\ \A i \in 1 .. Len(genomes'[ret'.res].chromosomes) :
                  \A j \in 1 .. Len(genomes'[g].chromosomes) :
                      genomes'[ret'.res].chromosomes[i] # genomes'[g].chromosomes[j]]_vars

\* C10 witness: a spawn of two different genomes, the receiver's chromosomes
\* non-empty, in which mutation and gene addition fired on each of the two
\* chromosomes of the child.
C10_Witness ==
    /\ ret.op = "gspawn"
    /\ ret.a # ret.b
    /\ \A i \in 1 .. Len(genomes[ret.a].chromosomes) :
          Length(Heap, genomes[ret.a].chromosomes[i]) >= 1
    /\ ret.p = RandDen
    /\ ret.ap = RandDen
    /\ Len(genomes[ret.res].chromosomes) = 2
    /\ \A i \in 1 .. 2 :
          Length(Heap, genomes[ret.res].chromosomes[i])
              = 1 + Max(Length(Heap, genomes[ret.a].chromosomes[i]),
                        Length(Heap, genomes[ret.b].chromosomes[i]))

====
